---- MODULE Spec2Model ----
(***************************************************************************)
(* Model of pallets/cash/src/chains.rs: the chain registry (ChainId), the  *)
(* per-chain capability implementations (Chain for Compound, Ethereum,     *)
(* Polkadot, Solana, Tezos), the tagged cross-chain values and their text  *)
(* codec, and signature recovery.                                          *)
(*                                                                         *)
(* A Rust &str is modelled as its UTF-8 byte sequence (a sequence of       *)
(* 0..255), because the code measures and slices strings in bytes.  Input  *)
(* texts are written as sequences of Unicode code points and encoded with  *)
(* utf8.  A call ends in Ok(value), Err(reason) or a panic; a panic aborts *)
(* the process, after which no operation runs.                             *)
(***************************************************************************)
EXTENDS Integers, Sequences, FiniteSets, TLC

\* ------------------------------------------------------------------------
\* Bounds of the input space
\* ------------------------------------------------------------------------
\* longest free-form head of a generated address text, in characters
MaxHead == 2
\* generated address texts are AddrLen - Slack .. AddrLen + Slack characters
Slack == 2
\* longest message / data input, in bytes
MaxMsgLen == 2

\* ------------------------------------------------------------------------
\* Program constants
\* ------------------------------------------------------------------------
\* byte length of a textual Ethereum address: `addr.len() == 42`
AddrLen == 42
\* width of Chain::Address, `[u8; 20]`
AddressBytes == 20
\* width of Chain::Hash, `[u8; 32]`
HashBytes == 32
\* width of Chain::Signature, `[u8; 65]`
SignatureBytes == 65

\* ------------------------------------------------------------------------
\* Characters and strings
\* ------------------------------------------------------------------------
\* the ASCII letters and digits, in code order
Letters ==
    <<"a", "b", "c", "d", "e", "f", "g", "h", "i", "j", "k", "l", "m",
      "n", "o", "p", "q", "r", "s", "t", "u", "v", "w", "x", "y", "z">>

Capitals ==
    <<"A", "B", "C", "D", "E", "F", "G", "H", "I", "J", "K", "L", "M",
      "N", "O", "P", "Q", "R", "S", "T", "U", "V", "W", "X", "Y", "Z">>

Digits == <<"0", "1", "2", "3", "4", "5", "6", "7", "8", "9">>

\* index of an element in a sequence that contains it
IndexOf(seq, x) == CHOOSE i \in DOMAIN seq : seq[i] = x

\* Unicode code point of a character, by name
CodePoint(ch) ==
    IF \E i \in DOMAIN Digits : Digits[i] = ch THEN 47 + IndexOf(Digits, ch)
    ELSE IF \E i \in DOMAIN Capitals : Capitals[i] = ch
    THEN 64 + IndexOf(Capitals, ch)
    ELSE IF \E i \in DOMAIN Letters : Letters[i] = ch
    THEN 96 + IndexOf(Letters, ch)
    ELSE CASE ch = ":" -> 58
           [] ch = "e-acute" -> 233
           [] ch = "long-s" -> 383
           [] ch = "euro" -> 8364

\* the code points of a text written as a sequence of character names
Text(names) == [i \in DOMAIN names |-> CodePoint(names[i])]

\* the UTF-8 encoding of one code point (1, 2 or 3 bytes)
utf8_char(cp) ==
    IF cp < 128 THEN <<cp>>
    ELSE IF cp < 2048 THEN <<192 + (cp \div 64), 128 + (cp % 64)>>
    ELSE <<224 + (cp \div 4096), 128 + ((cp \div 64) % 64), 128 + (cp % 64)>>

\* the UTF-8 encoding of a text given as a sequence of code points
RECURSIVE utf8(_)
utf8(cps) ==
    IF cps = <<>> THEN <<>> ELSE utf8_char(Head(cps)) \o utf8(Tail(cps))

\* str::is_char_boundary: index 0, the end, or a byte that is not a
\* UTF-8 continuation byte (0x80..0xBF)
is_char_boundary(s, i) ==
    \/ i = 0
    \/ i = Len(s)
    \/ i < Len(s) /\ ~(s[i + 1] \in 128..191)

\* a string literal of the source, as the bytes of a &str
Str(names) == utf8(Text(names))

\* &s[a..b]: panics unless a <= b <= len and both are char boundaries
str_slice(s, a, b) ==
    IF a <= b /\ b <= Len(s) /\ is_char_boundary(s, a) /\ is_char_boundary(s, b)
    THEN [panic |-> FALSE, val |-> SubSeq(s, a + 1, b)]
    ELSE [panic |-> TRUE, val |-> <<>>]

\* ------------------------------------------------------------------------
\* Results
\* ------------------------------------------------------------------------
NoVal == <<>>

Ok(v) == [kind |-> "Ok", reason |-> "", val |-> v, calls |-> <<>>]

Err(r) == [kind |-> "Err", reason |-> r, val |-> NoVal, calls |-> <<>>]

\* panic!(..) or a failed slice: the call does not return
Panic == [kind |-> "Panic", reason |-> "", val |-> NoVal, calls |-> <<>>]

\* the record of a call made to a parser: which function, on which text
Called(f, arg, r) == [r EXCEPT !.calls = <<[fn |-> f, arg |-> arg]>> \o @]

\* Ok(Variant(e?)): the value of e in the variant, or the failure of e
Wrapped(variant, r) ==
    IF r.kind = "Ok"
    THEN [kind |-> "Ok", reason |-> "",
          val |-> [variant |-> variant, payload |-> r.val], calls |-> r.calls]
    ELSE r

\* the call that gave `second` was made after the one that gave `first`
After(first, second) == [second EXCEPT !.calls = first.calls \o @]

\* what the caller observes of a call
Outcome(r) == [kind |-> r.kind, reason |-> r.reason, val |-> r.val]

\* ------------------------------------------------------------------------
\* hex
\* ------------------------------------------------------------------------
\* value of one hex digit byte, -1 for any other byte
hex_val(b) ==
    IF b \in 48..57 THEN b - 48
    ELSE IF b \in 97..102 THEN b - 97 + 10
    ELSE IF b \in 65..70 THEN b - 65 + 10
    ELSE -1

\* hex::decode: an odd length or a byte that is not a hex digit is an error
hex_decode(data) ==
    IF Len(data) % 2 # 0 THEN Err("OddLength")
    ELSE IF \E i \in 1..Len(data) : hex_val(data[i]) = -1
    THEN Err("InvalidHexCharacter")
    ELSE Ok([i \in 1..(Len(data) \div 2) |->
                hex_val(data[2 * i - 1]) * 16 + hex_val(data[2 * i])])

\* one lowercase hex digit byte for a value 0..15
hex_digit(v) == IF v < 10 THEN 48 + v ELSE 97 + (v - 10)

\* hex::encode with the two digits of each byte in the wrong order
hex_encode_swapped(bytes) ==
    [i \in 1..(2 * Len(bytes)) |->
        IF i % 2 = 1 THEN hex_digit(bytes[(i + 1) \div 2] % 16)
        ELSE hex_digit(bytes[i \div 2] \div 16)]

\* hex::encode: two lowercase hex digits per byte
hex_encode(bytes) ==
    [i \in 1..(2 * Len(bytes)) |->
        IF i % 2 = 1 THEN hex_digit(bytes[(i + 1) \div 2] \div 16)
        ELSE hex_digit(bytes[i \div 2] % 16)]

\* ------------------------------------------------------------------------
\* Chain for Ethereum
\* ------------------------------------------------------------------------
\* bytes.try_into() for [u8; 20]
try_into_address(bytes) ==
    IF Len(bytes) = AddressBytes THEN Ok(bytes) ELSE Err("TryFromSliceError")

\* to_address without the test of the "0x" prefix
Ethereum_to_address_any_prefix(addr) ==
    Called("Ethereum::to_address", addr,
        IF Len(addr) = AddrLen
        THEN LET body == str_slice(addr, 2, 42) IN
             IF body.panic THEN Panic
             ELSE LET decoded == hex_decode(body.val) IN
                  IF decoded.kind = "Ok" /\ Len(decoded.val) = AddressBytes
                  THEN Ok(decoded.val)
                  ELSE Err("BadAddress")
        ELSE Err("BadAddress"))

\* to_address with the length test off by one (43 instead of 42)
Ethereum_to_address_len43(addr) ==
    Called("Ethereum::to_address", addr,
        IF Len(addr) = AddrLen + 1
        THEN LET pre == str_slice(addr, 0, 2) IN
             IF pre.panic THEN Panic
             ELSE IF pre.val = Str(<<"0", "x">>)
             THEN LET body == str_slice(addr, 2, 42) IN
                  IF body.panic THEN Panic
                  ELSE LET decoded == hex_decode(body.val) IN
                       IF decoded.kind = "Ok" /\ Len(decoded.val) = AddressBytes
                       THEN Ok(decoded.val)
                       ELSE Err("BadAddress")
             ELSE Err("BadAddress")
        ELSE Err("BadAddress"))

Ethereum_to_address(addr) ==
    Called("Ethereum::to_address", addr,
        IF Len(addr) = AddrLen
        THEN LET pre == str_slice(addr, 0, 2) IN
             IF pre.panic THEN Panic
             ELSE IF pre.val = Str(<<"0", "x">>)
             THEN LET body == str_slice(addr, 2, 42) IN
                  IF body.panic THEN Panic
                  ELSE LET decoded == hex_decode(body.val) IN
                       IF decoded.kind = "Ok"
                       THEN LET address == try_into_address(decoded.val) IN
                            IF address.kind = "Ok" THEN Ok(address.val)
                            ELSE Err("BadAddress")
                       ELSE Err("BadAddress")
             ELSE Err("BadAddress")
        ELSE Err("BadAddress"))


\* [0u8; 32]
Ethereum_zero_hash == Ok([i \in 1..HashBytes |-> 0])

\* Keccak-256 of the data; `digest` is what tiny_keccak's hasher writes
\* into the 32-byte buffer
Ethereum_hash_bytes(data, digest) == Ok(digest)

\* `recovered` is the outcome of compound_crypto::eth_recover(data,
\* &signature, true); `?` returns its error to the caller
Ethereum_recover_address(data, signature, recovered) ==
    IF recovered.kind = "Ok" THEN Ok(recovered.val) ELSE Err(recovered.reason)

\* `key_id` is the outcome of get_eth_key_id() (an Option), `signed` that
\* of keyring_interface::sign_one(message, eth_key_id)
Ethereum_sign_message(message, key_id, signed) ==
    IF key_id.some
    THEN IF signed.kind = "Ok" THEN Ok(signed.val) ELSE Err(signed.reason)
    ELSE Err("KeyNotFound")

\* `pubk` is the outcome of keyring_interface::get_public_key(eth_key_id),
\* `derived` the address public_key_bytes_to_eth_address gives for it
Ethereum_signer_address(key_id, pubk, derived) ==
    IF key_id.some
    THEN IF pubk.kind = "Ok" THEN Ok(derived) ELSE Err(pubk.reason)
    ELSE Err("KeyNotFound")

\* ------------------------------------------------------------------------
\* Chain for Compound: every function is panic!("XXX not implemented")
\* ------------------------------------------------------------------------
Compound_zero_hash == Panic

Compound_hash_bytes(data) == Panic

Compound_recover_address(data, signature) == Panic

Compound_sign_message(message) == Panic

Compound_to_address(addr) == Called("Compound::to_address", addr, Panic)

Compound_signer_address == Panic

\* ------------------------------------------------------------------------
\* Chain for Polkadot: every function is panic!("XXX not implemented")
\* ------------------------------------------------------------------------
Polkadot_zero_hash == Panic

Polkadot_hash_bytes(data) == Panic

Polkadot_recover_address(data, signature) == Panic

Polkadot_sign_message(message) == Panic

Polkadot_to_address(addr) == Called("Polkadot::to_address", addr, Panic)

Polkadot_signer_address == Panic

\* ------------------------------------------------------------------------
\* Chain for Solana: every function is panic!("XXX not implemented")
\* ------------------------------------------------------------------------
Solana_zero_hash == Panic

Solana_hash_bytes(data) == Panic

Solana_recover_address(data, signature) == Panic

Solana_sign_message(message) == Panic

Solana_to_address(addr) == Called("Solana::to_address", addr, Panic)

Solana_signer_address == Panic

\* ------------------------------------------------------------------------
\* Chain for Tezos: every function is panic!("XXX not implemented")
\* ------------------------------------------------------------------------
Tezos_zero_hash == Panic

Tezos_hash_bytes(data) == Panic

Tezos_recover_address(data, signature) == Panic

Tezos_sign_message(message) == Panic

Tezos_to_address(addr) == Called("Tezos::to_address", addr, Panic)

Tezos_signer_address == Panic

\* ------------------------------------------------------------------------
\* ChainId and the tagged values
\* ------------------------------------------------------------------------
ChainIds == {"Comp", "Eth", "Dot", "Sol", "Tez"}

\* a variant of ChainAccount, ChainAsset, ChainHash or ChainSignature
Tagged(variant, payload) == [variant |-> variant, payload |-> payload]

\* a variant of ChainAccountSignature
AccountSig(variant, account, sig) ==
    [variant |-> variant, account |-> account, sig |-> sig]

\* the outcomes of the external collaborators during one call
NoExt ==
    [key_id |-> [some |-> FALSE, val |-> 0],
     signed |-> Err("unused"),
     pubk |-> Err("unused"),
     derived |-> <<>>,
     digest |-> <<>>,
     recovered |-> Err("unused")]

\* to_account with the Ethereum address wrapped in the variant of the arm
\* above it
ChainId_to_account_wrong_variant(self, addr) ==
    CASE self = "Comp" ->
           Wrapped("Comp", Compound_to_address(addr))
      [] self = "Eth" ->
           Wrapped("Comp", Ethereum_to_address(addr))
      [] self = "Dot" ->
           Wrapped("Dot", Polkadot_to_address(addr))
      [] self = "Sol" ->
           Wrapped("Sol", Solana_to_address(addr))
      [] self = "Tez" ->
           Wrapped("Tez", Tezos_to_address(addr))

ChainId_to_account(self, addr) ==
    CASE self = "Comp" ->
           Wrapped("Comp", Compound_to_address(addr))
      [] self = "Eth" ->
           Wrapped("Eth", Ethereum_to_address(addr))
      [] self = "Dot" ->
           Wrapped("Dot", Polkadot_to_address(addr))
      [] self = "Sol" ->
           Wrapped("Sol", Solana_to_address(addr))
      [] self = "Tez" ->
           Wrapped("Tez", Tezos_to_address(addr))

ChainId_to_asset(self, addr) ==
    CASE self = "Comp" ->
           Wrapped("Comp", Compound_to_address(addr))
      [] self = "Eth" ->
           Wrapped("Eth", Ethereum_to_address(addr))
      [] self = "Dot" ->
           Wrapped("Dot", Polkadot_to_address(addr))
      [] self = "Sol" ->
           Wrapped("Sol", Solana_to_address(addr))
      [] self = "Tez" ->
           Wrapped("Tez", Tezos_to_address(addr))

ChainId_signer_address(self, e) ==
    CASE self = "Comp" ->
           Wrapped("Comp", Compound_signer_address)
      [] self = "Eth" ->
           Wrapped("Eth", Ethereum_signer_address(e.key_id, e.pubk, e.derived))
      [] self = "Dot" ->
           Wrapped("Dot", Polkadot_signer_address)
      [] self = "Sol" ->
           Wrapped("Sol", Solana_signer_address)
      [] self = "Tez" ->
           Wrapped("Tez", Tezos_signer_address)

ChainId_hash_bytes(self, data, e) ==
    CASE self = "Comp" ->
           Wrapped("Comp", Compound_hash_bytes(data))
      [] self = "Eth" ->
           Wrapped("Eth", Ethereum_hash_bytes(data, e.digest))
      [] self = "Dot" ->
           Wrapped("Dot", Polkadot_hash_bytes(data))
      [] self = "Sol" ->
           Wrapped("Sol", Solana_hash_bytes(data))
      [] self = "Tez" ->
           Wrapped("Tez", Tezos_hash_bytes(data))

ChainId_sign(self, message, e) ==
    CASE self = "Comp" ->
           Wrapped("Comp", Compound_sign_message(message))
      [] self = "Eth" ->
           Wrapped("Eth", Ethereum_sign_message(message, e.key_id, e.signed))
      [] self = "Dot" ->
           Wrapped("Dot", Polkadot_sign_message(message))
      [] self = "Sol" ->
           Wrapped("Sol", Solana_sign_message(message))
      [] self = "Tez" ->
           Wrapped("Tez", Tezos_sign_message(message))

ChainId_zero_hash(self) ==
    CASE self = "Comp" ->
           Wrapped("Comp", Compound_zero_hash)
      [] self = "Eth" ->
           Wrapped("Eth", Ethereum_zero_hash)
      [] self = "Dot" ->
           Wrapped("Dot", Polkadot_zero_hash)
      [] self = "Sol" ->
           Wrapped("Sol", Solana_zero_hash)
      [] self = "Tez" ->
           Wrapped("Tez", Tezos_zero_hash)

ChainAccount_chain_id(self) ==
    IF self.variant = "Eth" THEN Ok("Eth") ELSE Panic

ChainAsset_chain_id(self) ==
    IF self.variant = "Eth" THEN Ok("Eth") ELSE Panic

ChainSignature_chain_id(self) ==
    IF self.variant = "Eth" THEN Ok("Eth") ELSE Panic

ChainAccountSignature_to_chain_signature(self) ==
    CASE self.variant = "Comp" -> Ok(Tagged("Comp", self.sig))
      [] self.variant = "Eth" -> Ok(Tagged("Eth", self.sig))
      [] self.variant = "Dot" -> Ok(Tagged("Dot", self.sig))
      [] self.variant = "Sol" -> Ok(Tagged("Sol", self.sig))
      [] self.variant = "Tez" -> Ok(Tagged("Tez", self.sig))

\* recover_account without the comparison with the claimed account
recover_account_unchecked(self, message, e) ==
    IF self.variant = "Eth"
    THEN Wrapped("Eth", Ethereum_recover_address(message, self.sig, e.recovered))
    ELSE Panic

ChainAccountSignature_recover_account(self, message, e) ==
    IF self.variant = "Eth"
    THEN LET recovered ==
                 Ethereum_recover_address(message, self.sig, e.recovered)
         IN IF recovered.kind = "Ok"
            THEN IF self.account = recovered.val
                 THEN Ok(Tagged("Eth", recovered.val))
                 ELSE Err("SignatureAccountMismatch")
            ELSE recovered
    ELSE Panic

ChainSignature_recover(self, message, e) ==
    IF self.variant = "Eth"
    THEN Wrapped("Eth",
                 Ethereum_recover_address(message, self.payload, e.recovered))
    ELSE Panic

\* ------------------------------------------------------------------------
\* Text codec
\* ------------------------------------------------------------------------
\* str::to_ascii_uppercase: only the bytes of 'a'..'z' change
to_ascii_uppercase(s) ==
    [i \in DOMAIN s |-> IF s[i] \in 97..122 THEN s[i] - 32 ELSE s[i]]

\* ChainId::from_str with a mapping for every chain
ChainId_from_str_all_tags(s) ==
    Called("ChainId::from_str", s,
        LET upper == to_ascii_uppercase(s) IN
        IF upper = Str(<<"E", "T", "H">>) THEN Ok("Eth")
        ELSE IF upper = Str(<<"S", "O", "L">>) THEN Ok("Sol")
        ELSE IF upper = Str(<<"C", "O", "M", "P">>) THEN Ok("Comp")
        ELSE IF upper = Str(<<"D", "O", "T">>) THEN Ok("Dot")
        ELSE IF upper = Str(<<"T", "E", "Z">>) THEN Ok("Tez")
        ELSE Err("BadChainId"))

ChainId_from_str(s) ==
    Called("ChainId::from_str", s,
        LET upper == to_ascii_uppercase(s) IN
        IF upper = Str(<<"E", "T", "H">>) THEN Ok("Eth")
        ELSE IF upper = Str(<<"S", "O", "L">>) THEN Ok("Sol")
        ELSE Err("BadChainId"))

\* a split at the last ':' byte, as str::rsplit_once(":") does
split_at_last(s) ==
    IF \E i \in DOMAIN s : s[i] = CodePoint(":")
    THEN LET at == CHOOSE i \in DOMAIN s :
                      /\ s[i] = CodePoint(":")
                      /\ \A j \in (i + 1)..Len(s) : s[j] # CodePoint(":")
         IN [some |-> TRUE,
             left |-> SubSeq(s, 1, at - 1),
             right |-> SubSeq(s, at + 1, Len(s))]
    ELSE [some |-> FALSE, left |-> <<>>, right |-> <<>>]

\* str::split_once(":"): the text before and after the first ':' byte
split_once(s) ==
    IF \E i \in DOMAIN s : s[i] = CodePoint(":")
    THEN LET at == CHOOSE i \in DOMAIN s :
                      /\ s[i] = CodePoint(":")
                      /\ \A j \in 1..(i - 1) : s[j] # CodePoint(":")
         IN [some |-> TRUE,
             left |-> SubSeq(s, 1, at - 1),
             right |-> SubSeq(s, at + 1, Len(s))]
    ELSE [some |-> FALSE, left |-> <<>>, right |-> <<>>]

ChainAccount_from_str(string) ==
    LET parts == split_once(string) IN
    IF parts.some
    THEN LET chain_id == ChainId_from_str(parts.left) IN
         IF chain_id.kind = "Ok"
         THEN After(chain_id, ChainId_to_account(chain_id.val, parts.right))
         ELSE chain_id
    ELSE Err("BadAsset")

ChainAsset_from_str(string) ==
    LET parts == split_once(string) IN
    IF parts.some
    THEN LET chain_id == ChainId_from_str(parts.left) IN
         IF chain_id.kind = "Ok"
         THEN After(chain_id, ChainId_to_asset(chain_id.val, parts.right))
         ELSE chain_id
    ELSE Err("BadAsset")

\* impl From<ChainAccount> for String
String_from_ChainAccount(asset) ==
    IF asset.variant = "Eth"
    THEN Ok(Str(<<"E", "T", "H", ":", "0", "x">>) \o hex_encode(asset.payload))
    ELSE Panic

\* impl From<ChainAsset> for String
String_from_ChainAsset(asset) ==
    IF asset.variant = "Eth"
    THEN Ok(Str(<<"E", "T", "H", ":", "0", "x">>) \o hex_encode(asset.payload))
    ELSE Panic

\* ------------------------------------------------------------------------
\* Inputs
\* ------------------------------------------------------------------------
\* the characters of a set of character names
Chars(names) == {CodePoint(n) : n \in names}

\* a text: `head`, then `fill` repeated up to `len` characters in all, with
\* the character at position `at` of the filled part replaced by `odd`
\* (at = 0: no replacement)
Filled(head, fill, len, at, odd) ==
    head \o [i \in 1..(len - Len(head)) |-> IF i = at THEN odd ELSE fill]

\* the lengths, in characters, of the generated address texts
AddrTextLens == (AddrLen - Slack)..(AddrLen + Slack)

\* where the odd character goes: nowhere, first, middle or last
OddAts(n) == {0, 1, n \div 2, n}

\* address texts handed to the address parsers
AddrTexts ==
    LET heads == UNION {[1..n -> Chars({"0", "x", "X", "e-acute", "euro"})] :
                          n \in 0..MaxHead}
    IN {utf8(Filled(h, f, l, at, odd)) :
          h \in heads, f \in Chars({"1", "a", "F"}), l \in AddrTextLens,
          at \in OddAts(AddrLen - 2),
          odd \in Chars({"2", "g", "e-acute", ":"})}

\* the address parts of the "<chain>:<address>" texts
TextAddrs ==
    {utf8(Filled(h, f, l, at, odd)) :
        h \in {<<>>, Text(<<"0", "x">>)}, f \in Chars({"1", "2", "a"}),
        l \in AddrTextLens, at \in {0, 1, AddrLen - 2},
        odd \in Chars({"F", "g", ":"})}
    \cup {<<>>, Str(<<"0", "x", "a", "b", "c">>)}

\* the spellings of a lowercase name with any of its letters capitalised
Spellings(name) ==
    {utf8([i \in DOMAIN name |->
             IF i \in caps /\ name[i] \in 97..122 THEN name[i] - 32
             ELSE name[i]]) : caps \in SUBSET DOMAIN name}

\* chain tags: the five chains, near misses and an unknown one
TagTexts ==
    UNION {Spellings(Text(n)) :
             n \in {<<"e", "t", "h">>, <<"s", "o", "l">>,
                    <<"c", "o", "m", "p">>, <<"d", "o", "t">>,
                    <<"t", "e", "z">>, <<"x", "y", "z">>, <<"e", "t">>,
                    <<"e", "t", "h", "h">>, <<"long-s", "o", "l">>, <<>>}}

HasColon(s) == \E i \in DOMAIN s : s[i] = CodePoint(":")

\* texts handed to ChainAccount::from_str and ChainAsset::from_str
Texts ==
    {t \o Str(<<":">>) \o a : t \in TagTexts, a \in TextAddrs}
    \cup {s \in TagTexts \cup TextAddrs : ~HasColon(s)}

ByteVals == {0, 17, 34, 171, 255}

\* n bytes, all `fill` but the one at `at`, which is `odd` (at = 0: none)
Bytes(n, fill, at, odd) == [i \in 1..n |-> IF i = at THEN odd ELSE fill]

Addresses ==
    {Bytes(AddressBytes, b, at, odd) :
        b \in ByteVals, at \in 0..AddressBytes, odd \in ByteVals}

FewAddresses ==
    {Bytes(AddressBytes, 17, at, 34) : at \in {0, 1, AddressBytes}}
    \cup {Bytes(AddressBytes, 34, 0, 0)}

Signatures == {Bytes(SignatureBytes, b, 0, 0) : b \in {0, 27}}

Hashes == {Bytes(HashBytes, b, 0, 0) : b \in {0, 1, 255}}

Messages == UNION {[1..n -> {0, 255}] : n \in 0..MaxMsgLen}

\* tagged values with an address payload (ChainAccount, ChainAsset)
TaggedAddresses ==
    {Tagged("Eth", a) : a \in Addresses}
    \cup {Tagged(c, a) : c \in ChainIds \ {"Eth"}, a \in FewAddresses}

TaggedSignatures == {Tagged(c, g) : c \in ChainIds, g \in Signatures}

AccountSignatures ==
    {AccountSig(c, a, g) : c \in ChainIds, a \in FewAddresses, g \in Signatures}

\* outcomes of compound_crypto::eth_recover
RecoverOutcomes == {Ok(a) : a \in FewAddresses} \cup {Err("CryptoError")}

\* outcomes of keyring_interface::sign_one
SignOutcomes == {Ok(g) : g \in Signatures} \cup {Err("CryptoError")}

\* outcomes of keyring_interface::get_public_key (a 64-byte key)
PublicKeyOutcomes == {Ok(Bytes(64, 4, 0, 0)), Err("CryptoError")}

\* outcomes of validator_config_interface::get_eth_key_id
KeyIds == {[some |-> FALSE, val |-> 0], [some |-> TRUE, val |-> 1]}

\* ------------------------------------------------------------------------
\* State
\* ------------------------------------------------------------------------
VARIABLES
    pc,      \* "idle", "returned" (a call has returned) or "aborted" (a panic)
    op,      \* the function last called
    self,    \* its receiver or value argument
    text,    \* its &str argument, as bytes
    data,    \* its &[u8] argument
    ext,     \* what the external collaborators answered during the call
    origin,  \* "caller": fresh input; "formatted": text made by String::from
    result,  \* what the call returned
    calls    \* the parsers the call consulted, in order, with their arguments

vars == <<pc, op, self, text, data, ext, origin, result, calls>>

Init ==
    /\ pc = "idle"
    /\ op = "none"
    /\ self = NoVal
    /\ text = <<>>
    /\ data = <<>>
    /\ ext = NoExt
    /\ origin = "caller"
    /\ result = Outcome(Ok(NoVal))
    /\ calls = <<>>

\* a call of `f` runs to its end: it returns r, or panics and aborts
Finish(f, s, t, d, e, o, r) ==
    /\ pc' = IF r.kind = "Panic" THEN "aborted" ELSE "returned"
    /\ op' = f
    /\ self' = s
    /\ text' = t
    /\ data' = d
    /\ ext' = e
    /\ origin' = o
    /\ result' = Outcome(r)
    /\ calls' = r.calls

CallEthereumToAddress ==
    /\ pc = "idle"
    /\ \E addr \in AddrTexts :
          Finish("Ethereum::to_address", NoVal, addr, <<>>, NoExt, "caller",
                 Ethereum_to_address(addr))

CallToAccount ==
    /\ pc = "idle"
    /\ \E c \in ChainIds, addr \in TextAddrs :
          Finish("ChainId::to_account", c, addr, <<>>, NoExt, "caller",
                 ChainId_to_account(c, addr))

CallToAsset ==
    /\ pc = "idle"
    /\ \E c \in ChainIds, addr \in TextAddrs :
          Finish("ChainId::to_asset", c, addr, <<>>, NoExt, "caller",
                 ChainId_to_asset(c, addr))

CallSignerAddress ==
    /\ pc = "idle"
    /\ \E c \in ChainIds, k \in KeyIds, pk \in PublicKeyOutcomes,
          a \in FewAddresses :
          LET e == [NoExt EXCEPT !.key_id = k, !.pubk = pk, !.derived = a] IN
          Finish("ChainId::signer_address", c, <<>>, <<>>, e, "caller",
                 ChainId_signer_address(c, e))

CallHashBytes ==
    /\ pc = "idle"
    /\ \E c \in ChainIds, d \in Messages, h \in Hashes :
          LET e == [NoExt EXCEPT !.digest = h] IN
          Finish("ChainId::hash_bytes", c, <<>>, d, e, "caller",
                 ChainId_hash_bytes(c, d, e))

CallSign ==
    /\ pc = "idle"
    /\ \E c \in ChainIds, m \in Messages, k \in KeyIds, g \in SignOutcomes :
          LET e == [NoExt EXCEPT !.key_id = k, !.signed = g] IN
          Finish("ChainId::sign", c, <<>>, m, e, "caller", ChainId_sign(c, m, e))

CallZeroHash ==
    /\ pc = "idle"
    /\ \E c \in ChainIds :
          Finish("ChainId::zero_hash", c, <<>>, <<>>, NoExt, "caller",
                 ChainId_zero_hash(c))

CallAccountChainId ==
    /\ pc = "idle"
    /\ \E v \in TaggedAddresses :
          Finish("ChainAccount::chain_id", v, <<>>, <<>>, NoExt, "caller",
                 ChainAccount_chain_id(v))

CallAssetChainId ==
    /\ pc = "idle"
    /\ \E v \in TaggedAddresses :
          Finish("ChainAsset::chain_id", v, <<>>, <<>>, NoExt, "caller",
                 ChainAsset_chain_id(v))

CallSignatureChainId ==
    /\ pc = "idle"
    /\ \E v \in TaggedSignatures :
          Finish("ChainSignature::chain_id", v, <<>>, <<>>, NoExt, "caller",
                 ChainSignature_chain_id(v))

CallToChainSignature ==
    /\ pc = "idle"
    /\ \E v \in AccountSignatures :
          Finish("ChainAccountSignature::to_chain_signature", v, <<>>, <<>>,
                 NoExt, "caller", ChainAccountSignature_to_chain_signature(v))

CallRecoverAccount ==
    /\ pc = "idle"
    /\ \E v \in AccountSignatures, m \in Messages, r \in RecoverOutcomes :
          LET e == [NoExt EXCEPT !.recovered = r] IN
          Finish("ChainAccountSignature::recover_account", v, <<>>, m, e,
                 "caller", ChainAccountSignature_recover_account(v, m, e))

CallRecover ==
    /\ pc = "idle"
    /\ \E v \in TaggedSignatures, m \in Messages, r \in RecoverOutcomes :
          LET e == [NoExt EXCEPT !.recovered = r] IN
          Finish("ChainSignature::recover", v, <<>>, m, e, "caller",
                 ChainSignature_recover(v, m, e))

CallChainIdFromStr ==
    /\ pc = "idle"
    /\ \E s \in TagTexts :
          Finish("ChainId::from_str", NoVal, s, <<>>, NoExt, "caller",
                 ChainId_from_str(s))

\* String::from(account); the caller keeps the account and the string
CallStringFromAccount ==
    /\ pc = "idle"
    /\ \E v \in TaggedAddresses :
          Finish("String::from(ChainAccount)", v, <<>>, <<>>, NoExt, "caller",
                 String_from_ChainAccount(v))

CallStringFromAsset ==
    /\ pc = "idle"
    /\ \E v \in TaggedAddresses :
          Finish("String::from(ChainAsset)", v, <<>>, <<>>, NoExt, "caller",
                 String_from_ChainAsset(v))

\* ChainAccount::from_str on a text of the caller's, or on the string that
\* String::from(account) has just returned
CallAccountFromStr ==
    \/ /\ pc = "idle"
       /\ \E s \in Texts :
             Finish("ChainAccount::from_str", NoVal, s, <<>>, NoExt, "caller",
                    ChainAccount_from_str(s))
    \/ /\ pc = "returned"
       /\ op = "String::from(ChainAccount)"
       /\ Finish("ChainAccount::from_str", self, result.val, <<>>, NoExt,
                 "formatted", ChainAccount_from_str(result.val))

CallAssetFromStr ==
    \/ /\ pc = "idle"
       /\ \E s \in Texts :
             Finish("ChainAsset::from_str", NoVal, s, <<>>, NoExt, "caller",
                    ChainAsset_from_str(s))
    \/ /\ pc = "returned"
       /\ op = "String::from(ChainAsset)"
       /\ Finish("ChainAsset::from_str", self, result.val, <<>>, NoExt,
                 "formatted", ChainAsset_from_str(result.val))

\* the caller goes on to its next call
Resume ==
    /\ pc = "returned"
    /\ pc' = "idle"
    /\ op' = "none"
    /\ self' = NoVal
    /\ text' = <<>>
    /\ data' = <<>>
    /\ ext' = NoExt
    /\ origin' = "caller"
    /\ result' = Outcome(Ok(NoVal))
    /\ calls' = <<>>

Next ==
    \/ CallEthereumToAddress
    \/ CallToAccount
    \/ CallToAsset
    \/ CallSignerAddress
    \/ CallHashBytes
    \/ CallSign
    \/ CallZeroHash
    \/ CallAccountChainId
    \/ CallAssetChainId
    \/ CallSignatureChainId
    \/ CallToChainSignature
    \/ CallRecoverAccount
    \/ CallRecover
    \/ CallChainIdFromStr
    \/ CallStringFromAccount
    \/ CallStringFromAsset
    \/ CallAccountFromStr
    \/ CallAssetFromStr
    \/ Resume

Spec == Init /\ [][Next]_vars

\* ------------------------------------------------------------------------
\* Vocabulary of the properties
\* ------------------------------------------------------------------------
\* the characters (code points) of a UTF-8 text
RECURSIVE chars(_)
chars(s) ==
    IF s = <<>> THEN <<>>
    ELSE IF s[1] < 128 THEN <<s[1]>> \o chars(SubSeq(s, 2, Len(s)))
    ELSE IF s[1] < 224
    THEN <<(s[1] - 192) * 64 + (s[2] - 128)>> \o chars(SubSeq(s, 3, Len(s)))
    ELSE <<(s[1] - 224) * 4096 + (s[2] - 128) * 64 + (s[3] - 128)>>
         \o chars(SubSeq(s, 4, Len(s)))

\* the hexadecimal digits and their values
HexDigitValue ==
    [c \in Chars({"0", "1", "2", "3", "4", "5", "6", "7", "8", "9"}) |-> c - 48]
    @@ [c \in Chars({"a", "b", "c", "d", "e", "f"}) |-> c - 87]
    @@ [c \in Chars({"A", "B", "C", "D", "E", "F"}) |-> c - 55]

\* a text of 42 characters: "0x", then 40 hexadecimal digits
IsAddressText(s) ==
    LET cs == chars(s) IN
    /\ Len(cs) = 42
    /\ cs[1] = CodePoint("0")
    /\ cs[2] = CodePoint("x")
    /\ \A i \in 3..42 : cs[i] \in DOMAIN HexDigitValue

\* the 20 bytes that the 40 digits of an address text encode, in order
AddressOfText(s) ==
    LET cs == chars(s) IN
    [i \in 1..20 |->
        HexDigitValue[cs[2 * i + 1]] * 16 + HexDigitValue[cs[2 * i + 2]]]

\* the position of the first colon of a text that has one
FirstColon(s) ==
    CHOOSE k \in DOMAIN s :
        s[k] = CodePoint(":") /\ ~HasColon(SubSeq(s, 1, k - 1))

\* the chain tags with a defined mapping, in every spelling
MappedTags ==
    Spellings(Text(<<"e", "t", "h">>)) \cup Spellings(Text(<<"s", "o", "l">>))

PlaceholderChains == {"Comp", "Dot", "Sol", "Tez"}

RegistryOps ==
    {"ChainId::to_account", "ChainId::to_asset", "ChainId::signer_address",
     "ChainId::hash_bytes", "ChainId::sign", "ChainId::zero_hash"}

FromStrOps == {"ChainAccount::from_str", "ChainAsset::from_str"}

\* the call returned Ok(v)
ReturnedOk(v) == pc = "returned" /\ result.kind = "Ok" /\ result.val = v

\* the call returned Err(reason)
ReturnedErr(reason) ==
    pc = "returned" /\ result.kind = "Err" /\ result.reason = reason

\* "0x" followed by n digits '1'
OnesAddressText(n) == utf8(Filled(Text(<<"0", "x">>), CodePoint("1"), n + 2, 0, 0))

\* ------------------------------------------------------------------------
\* Properties
\* ------------------------------------------------------------------------
\* C1: recover_account on ChainAccountSignature::Eth(Y, s) returns
\* Ok(ChainAccount::Eth(X)) only when the recovery primitive returned X = Y;
\* when it returned X # Y the result is Err(SignatureAccountMismatch); when
\* it failed, its error is returned.  An Ok result is the claimed account.
C1_RecoverAccountIsClaimed ==
    (op = "ChainAccountSignature::recover_account" /\ self.variant = "Eth") =>
        /\ pc = "returned"
        /\ (ext.recovered.kind = "Ok" /\ ext.recovered.val = self.account) =>
               ReturnedOk(Tagged("Eth", self.account))
        /\ (ext.recovered.kind = "Ok" /\ ext.recovered.val # self.account) =>
               ReturnedErr("SignatureAccountMismatch")
        /\ ext.recovered.kind = "Err" =>
               ReturnedErr(ext.recovered.reason)
        /\ result.kind = "Ok" => result.val = Tagged("Eth", self.account)

\* C1 witness: a signature that recovers to another address than the
\* claimed one has been rejected
C1_Witness ==
    /\ op = "ChainAccountSignature::recover_account"
    /\ self.variant = "Eth"
    /\ ext.recovered.kind = "Ok"
    /\ ext.recovered.val # self.account
    /\ result.reason = "SignatureAccountMismatch"

\* C2: every registry operation on a placeholder chain (Comp, Dot, Sol,
\* Tez) ends in an UnsupportedChain/UnsupportedOperation error and never
\* aborts the process.
C2_PlaceholderOpsFailTyped ==
    (op \in RegistryOps /\ self \in PlaceholderChains) =>
        /\ pc # "aborted"
        /\ result.kind = "Err"
        /\ result.reason \in {"UnsupportedChain", "UnsupportedOperation"}

\* C3: chain_id() of ChainAccount, ChainAsset and ChainSignature returns,
\* for each of the five variants, the ChainId of that variant, without
\* failing or aborting.
C3_ChainIdTotal ==
    op \in {"ChainAccount::chain_id", "ChainAsset::chain_id",
            "ChainSignature::chain_id"} =>
        /\ pc = "returned"
        /\ ReturnedOk(self.variant)

\* C4: ChainAccount::from_str and ChainAsset::from_str finish with a typed
\* result (Ok or a Reason error) on every text; no text terminates the
\* process.
C4_FromStrNeverAborts ==
    op \in FromStrOps =>
        /\ pc # "aborted"
        /\ result.kind \in {"Ok", "Err"}

\* C5: Ethereum::to_address returns Ok exactly for the texts of 42
\* characters that start with "0x" and continue with 40 hexadecimal digits,
\* and then returns the 20 bytes those digits encode, in order.
C5_ToAddressAcceptsExactly ==
    op = "Ethereum::to_address" =>
        /\ result.kind = "Ok" <=> IsAddressText(text)
        /\ result.kind = "Ok" => result.val = AddressOfText(text)

\* C5 witness: an address whose digits differ by position has been decoded
C5_Witness ==
    /\ op = "Ethereum::to_address"
    /\ result.kind = "Ok"
    /\ \E i, j \in 1..20 : result.val[i] # result.val[j]

\* C6: for every malformed address text (wrong length, no "0x", non-hex
\* body, multi-byte characters included) Ethereum::to_address returns
\* Err(BadAddress) and never panics.
C6_MalformedIsBadAddress ==
    (op = "Ethereum::to_address" /\ ~IsAddressText(text)) =>
        /\ pc = "returned"
        /\ ReturnedErr("BadAddress")

\* C7: a text with a colon whose part before the first colon is not, in any
\* spelling, a chain tag with a defined mapping makes ChainAccount::from_str
\* and ChainAsset::from_str return Err(BadChainId) whatever the address
\* part is, no address parser being consulted; ChainId::from_str returns
\* Err(BadChainId) for every such tag.
C7_UnknownTagIsBadChainId ==
    /\ (op \in FromStrOps /\ HasColon(text)
          /\ SubSeq(text, 1, FirstColon(text) - 1) \notin MappedTags) =>
            /\ pc = "returned"
            /\ ReturnedErr("BadChainId")
            /\ \A i \in DOMAIN calls : calls[i].fn = "ChainId::from_str"
    /\ (op = "ChainId::from_str" /\ text \notin MappedTags) =>
            /\ pc = "returned"
            /\ ReturnedErr("BadChainId")

\* C7 witness: "xyz:0xabc" has been parsed as an account
C7_Witness ==
    /\ op = "ChainAccount::from_str"
    /\ text = Str(<<"x", "y", "z", ":", "0", "x", "a", "b", "c">>)
    /\ result.reason = "BadChainId"

\* C8: ChainAccount::from_str and ChainAsset::from_str split the text once,
\* at the first colon: the chain tag parsed is the text before it, and the
\* address given to the chain's parser is all the text after it, later
\* colons included; a text without a colon returns Err(BadAsset) and
\* neither the chain-tag parser nor an address parser is consulted.
C8_SplitAtFirstColon ==
    op \in FromStrOps =>
        IF HasColon(text)
        THEN LET k == FirstColon(text) IN
             /\ Len(calls) \in {1, 2}
             /\ calls[1] = [fn |-> "ChainId::from_str",
                            arg |-> SubSeq(text, 1, k - 1)]
             /\ Len(calls) = 1 => ReturnedErr("BadChainId")
             /\ Len(calls) = 2 =>
                   /\ calls[2].fn \in {"Ethereum::to_address",
                                       "Solana::to_address"}
                   /\ calls[2].arg = SubSeq(text, k + 1, Len(text))
        ELSE /\ ReturnedErr("BadAsset")
             /\ calls = <<>>

\* C8 witness: a text with a second colon has reached the Ethereum address
\* parser, colon included
C8_Witness ==
    /\ op \in FromStrOps
    /\ Len(calls) = 2
    /\ calls[2].fn = "Ethereum::to_address"
    /\ HasColon(calls[2].arg)

\* C9: formatting ChainAccount::Eth(a) gives "ETH:0x" and 40 lowercase hex
\* digits, and parsing that text with ChainAccount::from_str gives
\* Ok(ChainAccount::Eth(a)); likewise for ChainAsset.
C9_EthRoundTrip ==
    (op \in FromStrOps /\ origin = "formatted") =>
        /\ self.variant = "Eth"
        /\ SubSeq(text, 1, 6) = Str(<<"E", "T", "H", ":", "0", "x">>)
        /\ Len(text) = 46
        /\ \A i \in 7..46 :
              text[i] \in Chars({"0", "1", "2", "3", "4", "5", "6", "7", "8",
                                 "9", "a", "b", "c", "d", "e", "f"})
        /\ ReturnedOk(self)

\* C9 witness: an asset whose address has letters and digits, different
\* by position, has been formatted and parsed back
C9_Witness ==
    /\ op = "ChainAsset::from_str"
    /\ origin = "formatted"
    /\ result.kind = "Ok"
    /\ self.payload[1] = 171
    /\ self.payload[20] = 17

\* C10 as stated: parsing "0x1111111111111111111111111111111111111111" with
\* Ethereum::to_address, ChainId::Eth.to_account or to_asset fails with
\* BadAddress.
C10_OnesTextIsBadAddress ==
    (/\ op \in {"Ethereum::to_address", "ChainId::to_account",
                 "ChainId::to_asset"}
     /\ op # "Ethereum::to_address" => self = "Eth"
     /\ text = OnesAddressText(40)) =>
        ReturnedErr("BadAddress")

\* C10 amended: "0x1111111111111111111111111111111111111111" has 40 digits
\* after "0x" and parses to twenty bytes 0x11 (wrapped in the Eth variant
\* by ChainId::Eth.to_account and to_asset); the text with one digit more,
\* 41 after "0x", fails with BadAddress.
C10_OnesTextParses ==
    (/\ op \in {"Ethereum::to_address", "ChainId::to_account",
                 "ChainId::to_asset"}
     /\ op # "Ethereum::to_address" => self = "Eth") =>
        /\ text = OnesAddressText(40) =>
              ReturnedOk(IF op = "Ethereum::to_address"
                         THEN Bytes(20, 17, 0, 0)
                         ELSE Tagged("Eth", Bytes(20, 17, 0, 0)))
        /\ text = OnesAddressText(41) =>
              ReturnedErr("BadAddress")

\* C10 witness: ChainId::Eth.to_account has parsed the text of 40 ones
C10_Witness ==
    /\ op = "ChainId::to_account"
    /\ self = "Eth"
    /\ text = OnesAddressText(40)
    /\ result.kind = "Ok"

\* C11: a registry operation of ChainId c that returns a value returns the
\* variant for c, with the payload that chain c's implementation produced
\* (the parsed address, the signer's derived address, the digest, the
\* signature, the zero hash); a text whose tag is any spelling of "eth",
\* followed by a colon and a valid address, parses to the Eth variant
\* wrapping the 20 bytes the address encodes, so that
\* "eth:0x2222222222222222222222222222222222222222" gives the Eth account
\* of twenty bytes 0x22.
C11_TagAgreesWithPayload ==
    /\ (op \in RegistryOps /\ result.kind = "Ok") =>
          /\ pc = "returned"
          /\ result.val.variant = self
          /\ op \in {"ChainId::to_account", "ChainId::to_asset"} =>
                /\ IsAddressText(text)
                /\ result.val.payload = AddressOfText(text)
          /\ op = "ChainId::signer_address" =>
                /\ ext.key_id.some /\ ext.pubk.kind = "Ok"
                /\ result.val.payload = ext.derived
          /\ op = "ChainId::hash_bytes" => result.val.payload = ext.digest
          /\ op = "ChainId::sign" =>
                /\ ext.key_id.some /\ ext.signed.kind = "Ok"
                /\ result.val.payload = ext.signed.val
          /\ op = "ChainId::zero_hash" =>
                result.val.payload = Bytes(32, 0, 0, 0)
    /\ (/\ op \in FromStrOps
        /\ HasColon(text)
        /\ SubSeq(text, 1, FirstColon(text) - 1)
              \in Spellings(Text(<<"e", "t", "h">>))
        /\ IsAddressText(SubSeq(text, FirstColon(text) + 1, Len(text)))) =>
          ReturnedOk(Tagged("Eth",
              AddressOfText(SubSeq(text, FirstColon(text) + 1, Len(text)))))
    /\ (/\ op = "ChainAccount::from_str"
        /\ text = Str(<<"e", "t", "h", ":">>)
                    \o utf8(Filled(Text(<<"0", "x">>), CodePoint("2"), 42, 0, 0))) =>
          ReturnedOk(Tagged("Eth", Bytes(20, 34, 0, 0)))

\* C11 witness: "eth:0x2222222222222222222222222222222222222222" has been
\* parsed as an account
C11_Witness ==
    /\ op = "ChainAccount::from_str"
    /\ text = Str(<<"e", "t", "h", ":">>)
                \o utf8(Filled(Text(<<"0", "x">>), CodePoint("2"), 42, 0, 0))
    /\ result.kind = "Ok"
    /\ result.val.variant = "Eth"

====
